---- MODULE Spec2Model ----
(***************************************************************************)
(* Terminal-Tic-Tac-Toe (src/tttt.py): the TicTacToe board engine as a     *)
(* state machine.  The state is the object's fields; every step is one     *)
(* call of TicTacToe.draw, whose arguments and outcome are kept in the     *)
(* variables entry, coordinate, result and wins; pc, won and printed are   *)
(* the state of main's loop.                                               *)
(***************************************************************************)
EXTENDS Integers, Sequences, FiniteSets, TLC

(* class Draw *)
Empty == " "
X == "X"
O == "O"
Draw == {Empty, X, O}

(* the board dimension the program uses by default *)
N == 3

(* the largest board dimension of the boards _does_win is applied to *)
MaxN == 4

(* the most entries on such a board when it is larger than the default one *)
MaxMarks == 5

(* the most entries on the board of a caller that passes any value of Draw *)
MaxEntries == 3

(* how far below the default dimension the dimensions asked of the constructor go *)
MaxBelow == 3

(* the most entries on a board that is followed from its construction on *)
MaxNewEntries == 2

(* how many keys of the grid, in insertion order, a caller of few cells uses *)
MaxKeys == 7

VARIABLES
    _n_dimensions,  \* self._n_dimensions
    _grid,          \* self._grid: coordinate -> entry
    _last_draw,     \* self._last_draw
    _finished,      \* self._finished
    entry,          \* first argument of the last call of draw
    coordinate,     \* second argument of the last call of draw
    result,         \* outcome of the last call of draw: a return value or an exception
    wins,           \* the tuple _does_win returned in the last call, <<>> if it was not called
    n_dimensions,   \* main: the local variable n_dimensions, the constructor's argument
    pc,             \* main: "new" before the constructor, "raised" after it raised, "while" at
                    \* the loop test, "exit" after sys.exit(0), "end" after the loop
    won,            \* main: the local variable won
    printed         \* main: how often the no-winner message was printed

main_vars == <<n_dimensions, pc, won, printed>>

vars == <<_n_dimensions, _grid, _last_draw, _finished, entry, coordinate, result, wins,
          n_dimensions, pc, won, printed>>

----------------------------------------------------------------------------
(* Python values and exceptions *)

True == "True"
False == "False"
None == "None"

(* what a call leaves its caller: the value returned or the exception raised *)
Returned(v) == [kind |-> "return", value |-> v]
Raised(type, message) == [kind |-> type, value |-> message]

(* bool(v) *)
Truthy(v) == v = True

(* any(t) for a tuple t *)
any(t) == IF \E i \in DOMAIN t : Truthy(t[i]) THEN True ELSE False

(* the exceptions draw raises: type and message *)
GameEnded == Raised("RuntimeError", "Game ended. No draw possible anymore.")
NotAllowed == Raised("ValueError", "not allowed to do the draw yet")
DoesntExist == Raised("ValueError", "Given coordinate doesn't exist in the dimensions")
NotEmpty == Raised("ValueError", "Cell at given coordinage is not empty.")

(* no call yet *)
NoCall == [kind |-> "no call", value |-> None]

----------------------------------------------------------------------------
(* TicTacToe.__init__ *)

(* the i-th key of _grid in insertion order: for x in range(n): for y in range(n) *)
Key(i, n) == <<(i - 1) \div n, (i - 1) % n>>

KeySet(n) == {Key(i, n) : i \in 1..(n * n)}

NewGrid(n) == [c \in KeySet(n) |-> Empty]

(* the exception __init__ raises *)
InvalidDimension ==
    Raised("ValueError", "Board size must be at least 3x3. Pick a higher number.")

(* no TicTacToe object: no field is set, there is no grid *)
NoGame ==
    [n_dimensions |-> 0, grid |-> [c \in {} |-> Empty], last_draw |-> Empty,
     finished |-> FALSE, result |-> InvalidDimension]

(* a constructor whose limit is one too low *)
__init__from_2(n) ==
    IF n < 2 THEN NoGame
    ELSE [n_dimensions |-> n, grid |-> NewGrid(n), last_draw |-> Empty,
          finished |-> FALSE, result |-> Returned(None)]

(* TicTacToe(n): the fields of the new object, or the exception *)
__init__(n) ==
    IF n < 3 THEN NoGame
    ELSE [n_dimensions |-> n, grid |-> NewGrid(n), last_draw |-> Empty,
          finished |-> FALSE, result |-> Returned(None)]

(* list(self._grid.items()): a dict keeps its insertion order *)
Items(g, n) == [i \in 1..(n * n) |-> <<Key(i, n), g[Key(i, n)]>>]

(* list(self._grid.values()) *)
Values(g, n) == [i \in 1..(n * n) |-> g[Key(i, n)]]

(* len([_ for _ in self._grid.values() if _ != Draw.Empty]) *)
NonEmpty(g) == Cardinality({c \in DOMAIN g : g[c] # Empty})

----------------------------------------------------------------------------
(* finished without the flag: only the count of the entries *)
finished_count_only(g, f, n) == NonEmpty(g) = n * n

(* finished without the count: only the flag *)
finished_flag_only(g, f, n) == f

(* TicTacToe.finished *)
finished(g, f, n) == f \/ NonEmpty(g) = n * n

(* current_drawer with X where O is meant in the condition *)
current_drawer_after_X(ld) == IF ld = Empty \/ ld = X THEN X ELSE O

(* TicTacToe.current_drawer *)
current_drawer(ld) == IF ld = Empty \/ ld = O THEN X ELSE O

----------------------------------------------------------------------------
(* TicTacToe._does_win *)

(* all(_ == entry_type for _ in entries) *)
AllEqual(entries, entry_type) == \A i \in DOMAIN entries : entries[i] = entry_type

(* _straight_check: the loop over grid_items from position i on, with the *)
(* entries collected so far; falling off the end returns None             *)
RECURSIVE StraightLoop(_, _, _, _, _)
StraightLoop(items, i, entries, n, entry_type) ==
    IF i > Len(items) THEN None
    ELSE IF Len(entries) <= n
         THEN LET appended == Append(entries, items[i][2])
              IN  IF Len(appended) = n
                  THEN IF AllEqual(appended, entry_type)
                       THEN True
                       ELSE StraightLoop(items, i + 1, <<>>, n, entry_type)
                  ELSE StraightLoop(items, i + 1, appended, n, entry_type)
         ELSE StraightLoop(items, i + 1, entries, n, entry_type)

_straight_check(grid_items, n, entry_type) ==
    StraightLoop(grid_items, 1, <<>>, n, entry_type)

(* _diagonal_check: for i in range(offset, len(values), step_size), with  *)
(* the entries collected so far; i counts from 0 as in the source         *)
RECURSIVE DiagonalLoop(_, _, _, _, _)
DiagonalLoop(values, i, step_size, entries, n) ==
    IF i >= Len(values) THEN entries
    ELSE IF Len(entries) = n THEN entries
    ELSE DiagonalLoop(values, i + step_size, step_size, Append(entries, values[i + 1]), n)

_diagonal_check(values, step_size, offset, n, entry_type) ==
    IF AllEqual(DiagonalLoop(values, offset, step_size, <<>>, n), entry_type)
    THEN True ELSE False

(* sorted(items, key=lambda item: item[0][1]): a stable sort by column *)
RECURSIVE SortedByColumn(_, _, _)
SortedByColumn(items, y, n) ==
    IF y >= n THEN <<>>
    ELSE SelectSeq(items, LAMBDA item : item[1][2] = y) \o SortedByColumn(items, y + 1, n)

(* values.reverse() *)
Reverse(values) == [i \in 1..Len(values) |-> values[Len(values) + 1 - i]]

(* _does_win stopping at the first axis that wins *)
_does_win_first_axis(g, n, entry_type) ==
    LET horizontal_win == _straight_check(Items(g, n), n, entry_type)
        vertical_win == _straight_check(SortedByColumn(Items(g, n), 0, n), n, entry_type)
        diagonal_descending_win == _diagonal_check(Values(g, n), n + 1, 0, n, entry_type)
        diagonal_ascending_win == _diagonal_check(Reverse(Values(g, n)), n - 1, n - 1, n, entry_type)
    IN  IF Truthy(horizontal_win) THEN <<True, None, False, False>>
        ELSE IF Truthy(vertical_win) THEN <<None, True, False, False>>
        ELSE IF Truthy(diagonal_descending_win) THEN <<None, None, True, False>>
        ELSE <<None, None, False, diagonal_ascending_win>>

(* _does_win with the ascending diagonal started one value late *)
_does_win_ascending_late(g, n, entry_type) ==
    LET horizontal_win == _straight_check(Items(g, n), n, entry_type)
        vertical_win == _straight_check(SortedByColumn(Items(g, n), 0, n), n, entry_type)
        diagonal_descending_win == _diagonal_check(Values(g, n), n + 1, 0, n, entry_type)
        diagonal_ascending_win == _diagonal_check(Reverse(Values(g, n)), n - 1, n, n, entry_type)
    IN  <<horizontal_win, vertical_win, diagonal_descending_win, diagonal_ascending_win>>

_does_win(g, n, entry_type) ==
    LET horizontal_win == _straight_check(Items(g, n), n, entry_type)
        vertical_win == _straight_check(SortedByColumn(Items(g, n), 0, n), n, entry_type)
        diagonal_descending_win == _diagonal_check(Values(g, n), n + 1, 0, n, entry_type)
        diagonal_ascending_win == _diagonal_check(Reverse(Values(g, n)), n - 1, n - 1, n, entry_type)
    IN  <<horizontal_win, vertical_win, diagonal_descending_win, diagonal_ascending_win>>

----------------------------------------------------------------------------
(* TicTacToe.draw *)

(* the state and outcome a call of draw leaves *)
Outcome(g, ld, f, r, w) ==
    [grid |-> g, last_draw |-> ld, finished |-> f, result |-> r, wins |-> w]

(* _show_winner that only prints *)
_show_winner_prints_only(f) == f

(* _show_winner: sets the flag (and prints) *)
_show_winner(f) == TRUE

(* the four "if wins[k]: self._show_winner(...)" in a row *)
RECURSIVE ShowWinners(_, _, _)
ShowWinners(w, k, f) ==
    IF k > Len(w) THEN f
    ELSE ShowWinners(w, k + 1, IF Truthy(w[k]) THEN _show_winner(f) ELSE f)

(* the winner check one entry late *)
EnoughEntries_late(g, n) == NonEmpty(g) > (n * 2) - 1

(* enough entries for a winner to be possible *)
EnoughEntries(g, n) == NonEmpty(g) >= (n * 2) - 1

(* self._grid[c] = e: a key the dict does not have yet is added *)
SetItem(g, c, e) ==
    IF c \in DOMAIN g THEN [g EXCEPT ![c] = e]
    ELSE [k \in DOMAIN g \cup {c} |-> IF k = c THEN e ELSE g[k]]

(* draw from the assignment of the cell on: lines 151-170 *)
Place(g, ld, f, n, e, c) ==
    LET g2 == SetItem(g, c, e)
    IN  IF EnoughEntries(g2, n)
        THEN LET w == _does_win(g2, n, e)
             IN  Outcome(g2, e, ShowWinners(w, 1, f), Returned(any(w)), w)
        ELSE Outcome(g2, e, f, Returned(False), <<>>)

(* draw with _last_draw assigned before the coordinate is checked *)
draw_last_draw_early(g, ld, f, n, e, c) ==
    IF finished(g, f, n) THEN Outcome(g, ld, f, GameEnded, <<>>)
    ELSE IF ld = e THEN Outcome(g, ld, f, NotAllowed, <<>>)
    ELSE IF c \notin DOMAIN g THEN Outcome(g, e, f, DoesntExist, <<>>)
    ELSE IF g[c] # Empty THEN Outcome(g, e, f, NotEmpty, <<>>)
    ELSE Place(g, ld, f, n, e, c)

(* draw with the coordinate checked before the turn *)
draw_coordinate_first(g, ld, f, n, e, c) ==
    IF finished(g, f, n) THEN Outcome(g, ld, f, GameEnded, <<>>)
    ELSE IF c \notin DOMAIN g THEN Outcome(g, ld, f, DoesntExist, <<>>)
    ELSE IF ld = e THEN Outcome(g, ld, f, NotAllowed, <<>>)
    ELSE IF g[c] # Empty THEN Outcome(g, ld, f, NotEmpty, <<>>)
    ELSE Place(g, ld, f, n, e, c)

(* draw without the check of the turn *)
draw_any_turn(g, ld, f, n, e, c) ==
    IF finished(g, f, n) THEN Outcome(g, ld, f, GameEnded, <<>>)
    ELSE IF c \notin DOMAIN g THEN Outcome(g, ld, f, DoesntExist, <<>>)
    ELSE IF g[c] # Empty THEN Outcome(g, ld, f, NotEmpty, <<>>)
    ELSE Place(g, ld, f, n, e, c)

(* draw that takes an absent key for an empty cell: self._grid.get(coordinate, *)
(* Draw.Empty) in place of the two checks of the coordinate                   *)
draw_any_coordinate(g, ld, f, n, e, c) ==
    IF finished(g, f, n) THEN Outcome(g, ld, f, GameEnded, <<>>)
    ELSE IF ld = e THEN Outcome(g, ld, f, NotAllowed, <<>>)
    ELSE IF c \in DOMAIN g /\ g[c] # Empty THEN Outcome(g, ld, f, NotEmpty, <<>>)
    ELSE Place(g, ld, f, n, e, c)

(* draw that assigns the cell whatever it holds *)
draw_overwrites(g, ld, f, n, e, c) ==
    IF finished(g, f, n) THEN Outcome(g, ld, f, GameEnded, <<>>)
    ELSE IF ld = e THEN Outcome(g, ld, f, NotAllowed, <<>>)
    ELSE IF c \notin DOMAIN g THEN Outcome(g, ld, f, DoesntExist, <<>>)
    ELSE Place(g, ld, f, n, e, c)

draw(g, ld, f, n, e, c) ==
    IF finished(g, f, n) THEN Outcome(g, ld, f, GameEnded, <<>>)
    ELSE IF ld = e THEN Outcome(g, ld, f, NotAllowed, <<>>)
    ELSE IF c \notin DOMAIN g THEN Outcome(g, ld, f, DoesntExist, <<>>)
    ELSE IF g[c] # Empty THEN Outcome(g, ld, f, NotEmpty, <<>>)
    ELSE Place(g, ld, f, n, e, c)

----------------------------------------------------------------------------
(* The callers *)

(* coordinates a caller passes: every cell, and some that are no key of the grid *)
Coordinates(n) == KeySet(n) \cup {<<n, 0>>, <<-1, 0>>, <<0, n>>}

(* a constructor that starts with _last_draw = Draw.O, so that X has to open *)
Init_X_opens ==
    /\ _n_dimensions = N
    /\ _grid = NewGrid(N)
    /\ _last_draw = O
    /\ _finished = FALSE
    /\ entry = Empty
    /\ coordinate = <<>>
    /\ result = NoCall
    /\ wins = <<>>
    /\ n_dimensions = _n_dimensions
    /\ pc = "while"
    /\ won = FALSE
    /\ printed = 0

(* game = TicTacToe(n_dimensions); won = False *)
Init ==
    /\ _n_dimensions = N
    /\ _grid = NewGrid(N)
    /\ _last_draw = Empty
    /\ _finished = FALSE
    /\ entry = Empty
    /\ coordinate = <<>>
    /\ result = NoCall
    /\ wins = <<>>
    /\ n_dimensions = _n_dimensions
    /\ pc = "while"
    /\ won = FALSE
    /\ printed = 0

(* game.draw(e, c) *)
Call(e, c) ==
    \E out \in {draw(_grid, _last_draw, _finished, _n_dimensions, e, c)} :
        /\ _grid' = out.grid
        /\ _last_draw' = out.last_draw
        /\ _finished' = out.finished
        /\ result' = out.result
        /\ wins' = out.wins
        /\ entry' = e
        /\ coordinate' = c
        /\ UNCHANGED _n_dimensions

(* a caller that keeps to the documented entries, Draw.X and Draw.O *)
Next ==
    \E e \in {X, O}, c \in Coordinates(_n_dimensions) :
        Call(e, c) /\ UNCHANGED main_vars

Spec == Init /\ [][Next]_vars

(* a caller that passes any value of class Draw, followed until MaxEntries *)
(* entries are on the board                                               *)
NextAny ==
    \E e \in Draw, c \in Coordinates(_n_dimensions) :
        NonEmpty(_grid) < MaxEntries /\ Call(e, c) /\ UNCHANGED main_vars

SpecAny == Init /\ [][NextAny]_vars

(* a caller that passes any value of class Draw and keeps to the first *)
(* MaxKeys cells of the grid, followed to the end of the game          *)
NextFew ==
    \E e \in Draw, c \in {Key(i, _n_dimensions) : i \in 1..MaxKeys} :
        Call(e, c) /\ UNCHANGED main_vars

SpecFew == Init /\ [][NextFew]_vars

----------------------------------------------------------------------------
(* main: the loop of lines 243-258 *)

(* what the player types, after re.findall(r"\d+", ...): a tuple of numbers *)
(* of any length, none of them negative                                     *)
PlayerInputs(n) == KeySet(n) \cup {<<n, 0>>, <<0, n>>, <<>>, <<0>>, <<0, 0, 0>>}

(* one turn of the loop with the input c: the body of "while not            *)
(* game.finished", from drawer = game.current_drawer to the last if         *)
Turn(c) ==
    /\ pc = "while"
    /\ ~finished(_grid, _finished, _n_dimensions)
    /\ Call(current_drawer(_last_draw), c)
    /\ won' = IF result'.kind = "return" THEN Truthy(result'.value) ELSE won
    /\ pc' = IF won' THEN "exit" ELSE "while"
    /\ printed' = IF ~won' /\ finished(_grid', _finished', _n_dimensions)
                  THEN printed + 1 ELSE printed
    /\ UNCHANGED n_dimensions

(* a turn whose input is an empty cell of the board *)
ValidTurn == \E c \in {k \in KeySet(_n_dimensions) : _grid[k] = Empty} : Turn(c)

(* a turn whose input is anything else *)
InvalidTurn ==
    \E c \in PlayerInputs(_n_dimensions) :
        /\ ~(c \in DOMAIN _grid /\ _grid[c] = Empty)
        /\ Turn(c)

(* the loop test fails: main returns *)
LoopEnd ==
    /\ pc = "while"
    /\ finished(_grid, _finished, _n_dimensions)
    /\ pc' = "end"
    /\ UNCHANGED <<_n_dimensions, _grid, _last_draw, _finished, entry, coordinate,
                   result, wins, n_dimensions, won, printed>>

NextMain == ValidTurn \/ InvalidTurn \/ LoopEnd

(* the loop, with a player who enters a valid coordinate on every turn in the end *)
SpecMain == Init /\ [][NextMain]_vars /\ WF_vars(ValidTurn) /\ WF_vars(LoopEnd)

----------------------------------------------------------------------------
(* main from the dimension the player asks for: lines 234-258 *)

(* n_dimensions = int(input(...) or 3), before game = TicTacToe(...) *)
InitNew ==
    /\ n_dimensions \in (N - MaxBelow)..MaxN
    /\ pc = "new"
    /\ _n_dimensions = NoGame.n_dimensions
    /\ _grid = NoGame.grid
    /\ _last_draw = NoGame.last_draw
    /\ _finished = NoGame.finished
    /\ entry = Empty
    /\ coordinate = <<>>
    /\ result = NoCall
    /\ wins = <<>>
    /\ won = FALSE
    /\ printed = 0

(* game = TicTacToe(n_dimensions=n_dimensions); won = False *)
New ==
    /\ pc = "new"
    /\ \E out \in {__init__(n_dimensions)} :
           /\ _n_dimensions' = out.n_dimensions
           /\ _grid' = out.grid
           /\ _last_draw' = out.last_draw
           /\ _finished' = out.finished
           /\ result' = out.result
           /\ pc' = IF out.result.kind = "return" THEN "while" ELSE "raised"
    /\ UNCHANGED <<entry, coordinate, wins, n_dimensions, won, printed>>

(* the loop is followed until MaxNewEntries entries are on the board *)
NextNew ==
    \/ New
    \/ NonEmpty(_grid) < MaxNewEntries /\ ValidTurn
    \/ NonEmpty(_grid) < MaxNewEntries /\ InvalidTurn

SpecNew == InitNew /\ [][NextNew]_vars

----------------------------------------------------------------------------
(* _does_win as a function of the grid: every assignment of entries to a *)
(* board of the default dimension, each checked for X and for O, and the *)
(* assignments of at most MaxMarks entries of one player to the larger   *)
(* boards, checked for that player                                       *)

MarkLimit(n) == IF n = N THEN n * n ELSE MaxMarks

Assigned(n) == IF n = N THEN {X, O} ELSE {X}

InitWin ==
    /\ _n_dimensions \in N..MaxN
    /\ _grid = NewGrid(_n_dimensions)
    /\ _last_draw = Empty
    /\ _finished = FALSE
    /\ entry = Empty
    /\ coordinate = <<>>
    /\ result = NoCall
    /\ wins = <<>>
    /\ n_dimensions = _n_dimensions
    /\ pc = "while"
    /\ won = FALSE
    /\ printed = 0

(* self._grid[c] = m *)
Assign(c, m) ==
    /\ wins = <<>>
    /\ _grid[c] = Empty
    /\ NonEmpty(_grid) < MarkLimit(_n_dimensions)
    /\ _grid' = [_grid EXCEPT ![c] = m]
    /\ UNCHANGED <<_n_dimensions, _last_draw, _finished, entry, coordinate, result, wins>>
    /\ UNCHANGED main_vars

(* wins = self._does_win(m) *)
DoesWin(m) ==
    /\ wins = <<>>
    /\ wins' = _does_win(_grid, _n_dimensions, m)
    /\ entry' = m
    /\ UNCHANGED <<_n_dimensions, _grid, _last_draw, _finished, coordinate, result>>
    /\ UNCHANGED main_vars

NextWin ==
    \/ \E c \in KeySet(_n_dimensions), m \in Assigned(_n_dimensions) : Assign(c, m)
    \/ \E m \in Assigned(_n_dimensions) : DoesWin(m)

SpecWin == InitWin /\ [][NextWin]_vars

----------------------------------------------------------------------------
(* Vocabulary of the properties *)

(* the cells of an n x n board *)
Cells(n) == (0..(n - 1)) \X (0..(n - 1))

(* the lines of the board, each the set of its n cells *)
RowCells(n, x) == {<<x, y>> : y \in 0..(n - 1)}
ColumnCells(n, y) == {<<x, y>> : x \in 0..(n - 1)}
DescendingCells(n) == {<<i, i>> : i \in 0..(n - 1)}
AscendingCells(n) == {<<n - 1 - i, i>> : i \in 0..(n - 1)}
Lines(n) ==
    {RowCells(n, x) : x \in 0..(n - 1)} \cup {ColumnCells(n, y) : y \in 0..(n - 1)}
        \cup {DescendingCells(n), AscendingCells(n)}

(* mark m fills line L of grid g *)
Fills(g, m, L) == \A c \in L : g[c] = m
HasLine(g, n, m) == \E L \in Lines(n) : Fills(g, m, L)

(* every cell holds an entry *)
Full(g, n) == \A c \in Cells(n) : g[c] # Empty

Errors == {GameEnded, NotAllowed, DoesntExist, NotEmpty}
IsError(r) == r \in Errors
IsReturn(r) == r \in {Returned(True), Returned(False)}

(* the properties finished and current_drawer in the current state *)
Finished == finished(_grid, _finished, _n_dimensions)
CurrentDrawer == current_drawer(_last_draw)

(* the game is over: a win was flagged or the board is full *)
Over == _finished \/ Full(_grid, _n_dimensions)

(* the other player's mark *)
Other(m) == IF m = X THEN O ELSE X

(* the grid with X on the cells xs and O on every other cell (3 x 3) *)
Pattern(xs) == [c \in Cells(N) |-> IF c \in xs THEN X ELSE O]

----------------------------------------------------------------------------
(* C1: a call of draw that raises (game ended, out of turn, coordinate   *)
(* out of bounds, cell occupied) leaves _grid, _last_draw and _finished, *)
(* and with them current_drawer and finished, as they were.              *)
C1_FailedDrawChangesNothing ==
    [][IsError(result') =>
          /\ _grid' = _grid
          /\ _last_draw' = _last_draw
          /\ _finished' = _finished
          /\ CurrentDrawer' = CurrentDrawer
          /\ Finished' = Finished]_vars

(* a call on an occupied cell of a running game was rejected *)
C1_Witness ==
    /\ result = NotEmpty
    /\ ~Finished
    /\ coordinate \in Cells(_n_dimensions)
    /\ _grid[coordinate] # Empty
    /\ entry # _last_draw

(* C2: once finished is true every call of draw, for any entry and any   *)
(* coordinate, raises the game-ended RuntimeError, changes no cell, and  *)
(* finished is still true afterwards.                                    *)
C2_FinishedAcceptsNoDraw ==
    [][(_finished \/ Full(_grid, _n_dimensions)) =>
          /\ result' = GameEnded
          /\ _grid' = _grid
          /\ Finished'
          /\ (_finished' \/ Full(_grid', _n_dimensions))]_vars

(* a call on an empty cell of a won game with cells left was rejected *)
C2_Witness ==
    /\ result = GameEnded
    /\ _finished
    /\ coordinate \in Cells(_n_dimensions)
    /\ _grid[coordinate] = Empty
    /\ entry # _last_draw

Expected(g, n, m) ==
    << \E x \in 0..(n - 1) : Fills(g, m, RowCells(n, x)),
       \E y \in 0..(n - 1) : Fills(g, m, ColumnCells(n, y)),
       Fills(g, m, DescendingCells(n)),
       Fills(g, m, AscendingCells(n)) >>

(* C4: the four results of _does_win(m) are each right on their own:     *)
(* horizontal is truthy iff some row is all m, vertical iff some column  *)
(* is all m, diagonal-descending iff the cells (i,i) are all m,          *)
(* diagonal-ascending iff the cells (n-1-i,i) are all m; axes that hold  *)
(* together are all reported.                                            *)
C4_DoesWinReportsEachAxis ==
    wins # <<>> =>
        /\ Len(wins) = 4
        /\ \A k \in 1..4 :
              Truthy(wins[k]) <=> Expected(_grid, _n_dimensions, entry)[k]

(* a row and a column of one mark at once, and both are reported *)
C4_Witness ==
    /\ wins # <<>>
    /\ Truthy(wins[1]) /\ Truthy(wins[2])
    /\ ~Truthy(wins[3]) /\ ~Truthy(wins[4])
    /\ result = NoCall

(* the ascending diagonal of a board larger than the default is reported *)
C4_WitnessLarge ==
    /\ wins # <<>>
    /\ _n_dimensions > N
    /\ Truthy(wins[4])
    /\ ~Truthy(wins[1]) /\ ~Truthy(wins[2]) /\ ~Truthy(wins[3])

(* the outcome the order of the checks of draw prescribes for a call of  *)
(* draw(e, c); r stands for any returned value                           *)
FirstViolated(e, c, r) ==
    IF Over THEN GameEnded
    ELSE IF e = _last_draw THEN NotAllowed
    ELSE IF c \notin Cells(_n_dimensions) THEN DoesntExist
    ELSE IF _grid[c] # Empty THEN NotEmpty
    ELSE r

(* C5: draw checks in the order game finished, out of turn, coordinate   *)
(* out of bounds, cell occupied, and reports the first check violated; a *)
(* call violating none of them returns.  The four failures are pairwise  *)
(* different.                                                            *)
C5_FirstViolatedCheckIsReported ==
    [][/\ result' = FirstViolated(entry', coordinate', result')
       /\ IsError(result') \/ IsReturn(result')
       /\ Cardinality(Errors) = 4]_vars

(* a repeated mark on a coordinate off the board is reported as out of turn *)
C5_Witness ==
    /\ result = NotAllowed
    /\ ~Over
    /\ entry = _last_draw
    /\ coordinate \in {<<_n_dimensions, 0>>, <<-1, 0>>}

(* C6 as claimed: after any successful draw(A, c1), draw(A, c2) fails as *)
(* out of turn for every c2, and draw(B, c2) with the other mark         *)
(* succeeds whenever c2 is in bounds and empty.                          *)
C6_AsClaimed ==
    [][_last_draw # Empty =>
          /\ entry' = _last_draw => result' = NotAllowed
          /\ (/\ entry' # _last_draw
              /\ coordinate' \in Cells(_n_dimensions)
              /\ _grid[coordinate'] = Empty) => IsReturn(result')]_vars

(* C6, amended: after a successful draw(A, c1) that leaves the game      *)
(* unfinished, draw(A, c2) fails as out of turn for every c2 and         *)
(* draw(B, c2) succeeds whenever c2 is in bounds and empty; when         *)
(* draw(A, c1) ended the game, both raise the game-ended error.          *)
C6_TurnsAlternateWhileRunning ==
    [][_last_draw # Empty =>
          /\ (~Over /\ entry' = _last_draw) => result' = NotAllowed
          /\ (/\ ~Over
              /\ entry' # _last_draw
              /\ coordinate' \in Cells(_n_dimensions)
              /\ _grid[coordinate'] = Empty) =>
                 /\ IsReturn(result')
                 /\ _grid' = [_grid EXCEPT ![coordinate'] = entry']
          /\ Over => result' = GameEnded]_vars

(* the other player placed an entry right after a placement *)
C6_Witness ==
    /\ IsReturn(result)
    /\ entry = O
    /\ _last_draw = O
    /\ NonEmpty(_grid) = 2
    /\ \E c \in Cells(_n_dimensions) : _grid[c] = X

(* the pattern of the claim: X on the corners and the centre *)
ClaimedDraw == Pattern({<<0, 0>>, <<0, 2>>, <<1, 1>>, <<2, 0>>, <<2, 2>>})

(* a full board with no line: X O X / X O O / O X X *)
DrawnBoard == Pattern({<<0, 0>>, <<0, 2>>, <<1, 0>>, <<2, 1>>, <<2, 2>>})

(* grid g has entries only where grid p has the same *)
Within(g, p) == \A c \in DOMAIN g : g[c] = Empty \/ g[c] = p[c]

(* C7 as claimed: nine alternating placements, A on (0,0),(0,2),(1,1),   *)
(* (2,0),(2,2) and B on (0,1),(1,0),(1,2),(2,1), are all accepted, the   *)
(* last draw returns False and finished is true.                         *)
C7_AsClaimed ==
    (_grid = ClaimedDraw /\ IsReturn(result)) =>
        (result = Returned(False) /\ Finished)

(* C7, amended: the pattern of the claim holds both diagonals of A, so   *)
(* its nine placements are all accepted only with (1,1) placed last, and *)
(* that draw returns True; placed earlier, the draw that completes a     *)
(* diagonal returns True and ends the game.  A full board with no line   *)
(* of either mark is reached by nine accepted placements, the last of    *)
(* which returns False, and is finished with _finished unset.            *)
C7_FullBoardWithoutLineIsDraw ==
    /\ (_grid = ClaimedDraw /\ IsReturn(result)) =>
           (result = Returned(True) /\ coordinate = <<1, 1>> /\ Finished)
    /\ (Within(_grid, ClaimedDraw) /\ HasLine(_grid, _n_dimensions, X)) => _finished
    /\ (/\ Full(_grid, _n_dimensions)
        /\ ~HasLine(_grid, _n_dimensions, X)
        /\ ~HasLine(_grid, _n_dimensions, O)
        /\ IsReturn(result)) =>
           (result = Returned(False) /\ Finished /\ ~_finished)

(* the ninth placement of a board without a line returned False *)
C7_Witness ==
    /\ _grid = DrawnBoard
    /\ result = Returned(False)
    /\ Finished
    /\ ~_finished

(* C8: finished is true exactly when the flag is set or every cell is    *)
(* non-empty; the flag is set exactly when some draw has returned True,  *)
(* and only with a complete line of the last mover on the board; a board *)
(* filled without a complete line is finished with the last draw         *)
(* returning False.                                                      *)
C8_FinishedIffWonOrFull ==
    [][/\ Finished' <=> (_finished' \/ Full(_grid', _n_dimensions))
       /\ _finished' <=> (_finished \/ result' = Returned(True))
       /\ _finished' => HasLine(_grid', _n_dimensions, _last_draw')
       /\ (/\ Full(_grid', _n_dimensions)
           /\ ~HasLine(_grid', _n_dimensions, X)
           /\ ~HasLine(_grid', _n_dimensions, O)
           /\ IsReturn(result')) =>
              (result' = Returned(False) /\ Finished' /\ ~_finished')]_vars

(* a call on a board that filled up without a line was rejected *)
C8_Witness ==
    /\ result = GameEnded
    /\ Full(_grid, _n_dimensions)
    /\ ~_finished
    /\ Finished
    /\ ~HasLine(_grid, _n_dimensions, X)
    /\ ~HasLine(_grid, _n_dimensions, O)

(* C9 as claimed: whatever value of Draw the calls pass (Empty, X, O),   *)
(* once an entry has been placed _last_draw is X or O.                   *)
C9_AsClaimed ==
    NonEmpty(_grid) >= 1 => _last_draw \in {X, O}

(* C10: current_drawer is X when _last_draw is Empty or O, and O         *)
(* otherwise; in an unfinished state it differs from _last_draw, and     *)
(* draw(current_drawer, c) succeeds on every empty cell c of the board;  *)
(* moves made with current_drawer start with X and hand the turn to the  *)
(* other mark each time.                                                 *)
C10_CurrentDrawerIsAccepted ==
    [][/\ CurrentDrawer' = (IF _last_draw' \in {Empty, O} THEN X ELSE O)
       /\ ~Over' => CurrentDrawer' # _last_draw'
       /\ (/\ ~Over
           /\ entry' = CurrentDrawer
           /\ coordinate' \in Cells(_n_dimensions)
           /\ _grid[coordinate'] = Empty) =>
              /\ IsReturn(result')
              /\ _grid' = [_grid EXCEPT ![coordinate'] = entry']
       /\ (entry' = CurrentDrawer /\ IsReturn(result')) =>
              /\ entry' = (IF _last_draw = Empty THEN X ELSE Other(_last_draw))
              /\ _last_draw' = entry'
              /\ CurrentDrawer' = Other(entry')]_vars

(* the fourth move of a game, made by the current drawer O, was accepted *)
C10_Witness ==
    /\ IsReturn(result)
    /\ entry = O
    /\ CurrentDrawer = X
    /\ NonEmpty(_grid) = 4
    /\ Cardinality({c \in Cells(_n_dimensions) : _grid[c] = X}) = 2
    /\ ~Over

(* the number of cells of the grid that hold mark m *)
Count(g, m) == Cardinality({c \in DOMAIN g : g[c] = m})

(* C11: with entries X and O, the marks of consecutive successful        *)
(* placements differ, however many rejected calls lie between them:      *)
(* _last_draw is the mark of the last successful placement (a rejected   *)
(* call keeps it), and a successful placement has another mark.          *)
C11_ConsecutivePlacementsDiffer ==
    [][/\ IsReturn(result') =>
             /\ entry' # _last_draw
             /\ _last_draw' = entry'
             /\ _grid' = [_grid EXCEPT ![coordinate'] = entry']
       /\ IsError(result') => (_last_draw' = _last_draw /\ _grid' = _grid)
       /\ Count(_grid', X) - Count(_grid', O) \in {-1, 0, 1}]_vars

(* X placed its second entry after O's first, with a rejected call since *)
C11_Witness ==
    /\ result = NotAllowed
    /\ _last_draw = X
    /\ Count(_grid, X) = 2
    /\ Count(_grid, O) = 1

(* C12: the first placement is free in its mark: on the empty board      *)
(* draw(X, c) and draw(O, c) both succeed on every cell c, although      *)
(* current_drawer is X; after an opening O the mark accepted next is X.  *)
C12_EitherMarkOpens ==
    [][/\ (NonEmpty(_grid) = 0 /\ coordinate' \in Cells(_n_dimensions)) =>
             /\ result' = Returned(False)
             /\ _grid' = [_grid EXCEPT ![coordinate'] = entry']
             /\ CurrentDrawer = X
       /\ (/\ NonEmpty(_grid) = 1
           /\ Count(_grid, O) = 1
           /\ coordinate' \in Cells(_n_dimensions)
           /\ _grid[coordinate'] = Empty) =>
             /\ entry' = X => IsReturn(result')
             /\ entry' = O => result' = NotAllowed
             /\ CurrentDrawer = X]_vars

(* O opened the game on the last cell *)
C12_Witness ==
    /\ result = Returned(False)
    /\ entry = O
    /\ NonEmpty(_grid) = 1
    /\ _grid[<<_n_dimensions - 1, _n_dimensions - 1>>] = O

(* C13: TicTacToe(n) succeeds exactly for n >= 3: below 3 it raises the  *)
(* ValueError and no board exists; from 3 on the new game has n * n      *)
(* cells, all Empty, _last_draw Empty, and is not finished.              *)
C13_ConstructsFromThreeOn ==
    [][pc = "new" =>
          /\ n_dimensions < 3 =>
                /\ result' = InvalidDimension
                /\ pc' = "raised"
                /\ DOMAIN _grid' = {}
          /\ n_dimensions >= 3 =>
                /\ result' = Returned(None)
                /\ pc' = "while"
                /\ _n_dimensions' = n_dimensions
                /\ DOMAIN _grid' = Cells(n_dimensions)
                /\ Cardinality(DOMAIN _grid') = n_dimensions * n_dimensions
                /\ \A c \in DOMAIN _grid' : _grid'[c] = Empty
                /\ _last_draw' = Empty
                /\ ~_finished'
                /\ ~Finished']_vars

(* the constructor refused the largest dimension it refuses *)
C13_Witness ==
    /\ pc = "raised"
    /\ n_dimensions = 2
    /\ result = InvalidDimension
    /\ DOMAIN _grid = {}

(* C14 as claimed: the winner check may be skipped below 2n - 1 entries: *)
(* after every sequence of draw calls, a grid with fewer than 2n - 1     *)
(* non-empty cells has no complete line of one mark.                     *)
C14_AsClaimed ==
    NonEmpty(_grid) < (2 * _n_dimensions) - 1 =>
        /\ ~HasLine(_grid, _n_dimensions, X)
        /\ ~HasLine(_grid, _n_dimensions, O)

(* C14 for callers that pass X and O only: every returning draw returns  *)
(* what a winner check on every move would return, and no grid has a     *)
(* complete line below 2n - 1 entries.                                   *)
C14_NoLineBeforeCheckWithMarks ==
    [][IsReturn(result') =>
          /\ Truthy(result'.value) <=> HasLine(_grid', _n_dimensions, entry')
          /\ _finished' <=> (_finished \/ HasLine(_grid', _n_dimensions, entry'))
          /\ NonEmpty(_grid') < (2 * _n_dimensions) - 1 =>
                /\ ~HasLine(_grid', _n_dimensions, X)
                /\ ~HasLine(_grid', _n_dimensions, O)]_vars

(* C15 as claimed: a cell that holds X or O holds it ever after, and a   *)
(* placement of the other player on such a cell fails as occupied.       *)
C15_AsClaimed ==
    [][/\ \A c \in DOMAIN _grid : _grid[c] # Empty => _grid'[c] = _grid[c]
       /\ (/\ entry' # _last_draw
           /\ coordinate' \in Cells(_n_dimensions)
           /\ _grid[coordinate'] # Empty) => result' = NotEmpty]_vars

(* C15, amended: a cell that holds X or O holds it ever after; while the *)
(* game is not finished a placement of the other player on such a cell   *)
(* fails as occupied, and once it is finished it fails as game ended.    *)
C15_MarkedCellIsKept ==
    [][/\ \A c \in DOMAIN _grid : _grid[c] # Empty => _grid'[c] = _grid[c]
       /\ (/\ entry' # _last_draw
           /\ coordinate' \in Cells(_n_dimensions)
           /\ _grid[coordinate'] # Empty) =>
             result' = IF Over THEN GameEnded ELSE NotEmpty]_vars

(* O tried the cell X took first *)
C15_Witness ==
    /\ result = NotEmpty
    /\ entry = O
    /\ _last_draw = X
    /\ coordinate = <<0, 0>>
    /\ _grid[coordinate] = X
    /\ NonEmpty(_grid) = 1

(* C16: the keys of the grid are the n * n cells of the board, whatever  *)
(* is drawn; a draw on a coordinate that is no cell, as (n, 0) and       *)
(* (-1, 0), fails and leaves the grid as it is.                          *)
C16_KeysAreTheCells ==
    /\ [](DOMAIN _grid = Cells(_n_dimensions))
    /\ [][coordinate' \notin Cells(_n_dimensions) =>
             (IsError(result') /\ _grid' = _grid)]_vars

(* a draw on (-1, 0) was refused with entries on the board *)
C16_Witness ==
    /\ result = DoesntExist
    /\ coordinate = <<-1, 0>>
    /\ NonEmpty(_grid) = 2
    /\ DOMAIN _grid = Cells(_n_dimensions)

(* C17 as claimed: each successful draw increases the number of          *)
(* non-empty cells by exactly one, so that the game is finished after at *)
(* most n * n successful placements.                                     *)
C17_AsClaimed ==
    [][IsReturn(result') => NonEmpty(_grid') = NonEmpty(_grid) + 1]_vars

(* C17 for the main loop, which draws X and O only. The loop exits by    *)
(* the measure n * n - NonEmpty(_grid): while the loop runs an empty     *)
(* cell is there to be entered, each successful draw adds one entry, no  *)
(* turn removes one, and a full board is finished.                       *)
C17_MainLoopMeasure ==
    /\ [](NonEmpty(_grid) = _n_dimensions * _n_dimensions => Finished)
    /\ []((pc = "while" /\ ~Finished) =>
              \E c \in Cells(_n_dimensions) : _grid[c] = Empty)
    /\ [][(pc = "while" /\ ~Over) =>
             /\ IsReturn(result') => NonEmpty(_grid') = NonEmpty(_grid) + 1
             /\ IsError(result') => NonEmpty(_grid') = NonEmpty(_grid)
             /\ pc' \in {"while", "exit"}]_vars
    /\ [][(pc = "while" /\ Over) => pc' = "end"]_vars

(* C18 as claimed: in every reachable state at most one of X and O has a *)
(* complete line.                                                        *)
C18_AsClaimed ==
    ~(HasLine(_grid, _n_dimensions, X) /\ HasLine(_grid, _n_dimensions, O))

(* C18 for callers that pass X and O only: at most one of X and O has a  *)
(* complete line, and a line is there only when the game is flagged      *)
(* finished.                                                             *)
C18_OneWinnerWithMarks ==
    /\ ~(HasLine(_grid, _n_dimensions, X) /\ HasLine(_grid, _n_dimensions, O))
    /\ (HasLine(_grid, _n_dimensions, X) \/ HasLine(_grid, _n_dimensions, O)) =>
           _finished

(* C19: the main loop prints the no-winner message exactly when the game *)
(* ends in a draw: once when the board is full and no draw returned      *)
(* True, never after a draw returned True (a win on the last cell        *)
(* included) nor while the game is unfinished; a rejected move leaves    *)
(* the turn with the same player.                                        *)
C19_NoWinnerMessageIffDraw ==
    /\ [](/\ printed \in {0, 1}
          /\ printed = 1 <=> (Full(_grid, _n_dimensions) /\ ~won)
          /\ won => (printed = 0 /\ pc = "exit")
          /\ won <=> _finished
          /\ ~Over => printed = 0)
    /\ [][(pc = "while" /\ ~Over /\ IsError(result')) =>
             /\ pc' = "while"
             /\ CurrentDrawer' = CurrentDrawer
             /\ printed' = printed
             /\ _grid' = _grid]_vars

(* the loop ended on a full board after the message was printed *)
C19_Witness ==
    /\ pc = "end"
    /\ printed = 1
    /\ ~won
    /\ Full(_grid, _n_dimensions)

====
